---- MODULE Spec2Model ----
(***************************************************************************)
(* CodeForge: a command-line project scaffolder (src/codeforge.py and      *)
(* src/modules/).  One process run is initialize() followed by one command *)
(* handler; what survives between runs is the working directory: the file  *)
(* config.json, the templates/ tree and the generated projects.  The model *)
(* keeps that directory as its state and has one action per command.       *)
(*                                                                         *)
(* Conventions.  A path is the tuple of its components below the working   *)
(* directory (os.path.join appends, os.path.abspath normalises, so "." is  *)
(* the empty tuple).  A text is the sequence of its lines as readlines()   *)
(* returns them, every line with its own "\n"; the empty string is the     *)
(* empty sequence.  The file system is case-sensitive (Linux).  Python's   *)
(* None is the value None below.                                           *)
(***************************************************************************)
EXTENDS Integers, Sequences, FiniteSets, TLC

VARIABLES
    fs,      \* the working directory below config.json: templates/ and the projects
    config,  \* the content of config.json
    runs,    \* how many commands have been run
    last     \* the last command: its arguments, what it met and how it ended

vars == <<fs, config, runs, last>>

None == "<None>"

(***************************************************************************)
(* Strings.                                                                *)
(***************************************************************************)
UpperChars == <<"A", "B", "C", "D", "E", "F", "G", "H", "I", "J", "K", "L", "M",
                "N", "O", "P", "Q", "R", "S", "T", "U", "V", "W", "X", "Y", "Z">>

LowerChars == <<"a", "b", "c", "d", "e", "f", "g", "h", "i", "j", "k", "l", "m",
                "n", "o", "p", "q", "r", "s", "t", "u", "v", "w", "x", "y", "z">>

\* str.lower() on one character
LowerChar(c) ==
    IF \E i \in 1..Len(UpperChars) : UpperChars[i] = c
    THEN LowerChars[CHOOSE i \in 1..Len(UpperChars) : UpperChars[i] = c]
    ELSE c

RECURSIVE LowerOf(_)
\* str.lower(), character by character
LowerOf(s) ==
    IF Len(s) = 0 THEN s
    ELSE LowerChar(SubSeq(s, 1, 1)) \o LowerOf(SubSeq(s, 2, Len(s)))

\* LowerOf tabulated for the strings that occur often, so that it is computed
\* once for each of them
LowerTable ==
    [s \in {"python", "Python", "c#", "C#", "lua", "cs_script", "cs_project",
            "py", "csx", "cs", "vscode", "demo", "blank", "Blank", "hello world",
            "if name main", "nosuch", "mine", "y", "n", "-", "output_path", "pyw",
            "output", "ide", "Hello World"} |-> LowerOf(s)]

\* str.lower()
Lower(s) == IF s \in DOMAIN LowerTable THEN LowerTable[s] ELSE LowerOf(s)

\* str.startswith(prefix)
StartsWith(s, prefix) ==
    /\ Len(s) >= Len(prefix)
    /\ SubSeq(s, 1, Len(prefix)) = prefix

(***************************************************************************)
(* The file system: a function from the paths that exist to their nodes.   *)
(***************************************************************************)
Root == <<>>

DirNode == [kind |-> "dir"]

FileNode(lines) == [kind |-> "file", lines |-> lines, exec |-> FALSE]

IsPrefix(p, q) == Len(p) <= Len(q) /\ SubSeq(q, 1, Len(p)) = p

\* os.path.exists
Exists(f, p) == p \in DOMAIN f

IsFile(f, p) == Exists(f, p) /\ f[p].kind = "file"

IsDir(f, p) == Exists(f, p) /\ f[p].kind = "dir"

\* os.path.join(dir, name)
Join(dir, name) == Append(dir, name)

Parent(p) == SubSeq(p, 1, Len(p) - 1)

\* os.makedirs(p): p and every missing ancestor become directories
Makedirs(f, p) ==
    [q \in DOMAIN f \cup {SubSeq(p, 1, n) : n \in 1..Len(p)} |->
        IF q \in DOMAIN f THEN f[q] ELSE DirNode]

\* shutil.rmtree(p)
Rmtree(f, p) == [q \in {r \in DOMAIN f : ~IsPrefix(p, r)} |-> f[q]]

\* os.remove(p)
Remove(f, p) == [q \in DOMAIN f \ {p} |-> f[q]]

\* open(p, "w") / open(p, "w+") followed by write(): the file is truncated and
\* keeps its mode bits when it existed
WriteFile(f, p, lines) ==
    [q \in DOMAIN f \cup {p} |->
        IF q = p
        THEN [kind |-> "file", lines |-> lines,
              exec |-> IF IsFile(f, p) THEN f[p].exec ELSE FALSE]
        ELSE f[q]]

\* chmod +x p
Chmod(f, p) == IF IsFile(f, p) THEN [f EXCEPT ![p].exec = TRUE] ELSE f

\* the names of the entries directly inside directory d
Listdir(f, d) == {p[Len(p)] : p \in {q \in DOMAIN f : Len(q) = Len(d) + 1 /\ IsPrefix(d, q)}}

(***************************************************************************)
(* config.json.  A JSON object whose order matters (languages, ides) is a  *)
(* sequence of [key, value]; a value is a record holding the members that  *)
(* are present.  The defaults object is a function from its keys.          *)
(***************************************************************************)
Keys(d) == {d[i].key : i \in DOMAIN d}

\* dict.get(k, default)
Get(d, k, default) == IF k \in DOMAIN d THEN d[k] ELSE default

\* the languages object written by generate_json
GeneratedLanguages ==
    << [key |-> "python",
        value |-> [language |-> "python", extension |-> "py",
                   shebang |-> "#!/usr/bin/env python3",
                   gitignore |-> <<"# Ignore __pycache__\n", "__pycache__/">>]],
       [key |-> "cs_script",
        value |-> [language |-> "c#", extension |-> "csx",
                   shebang |-> "/usr/bin/env/ dotnet-script"]],
       [key |-> "cs_project",
        value |-> [language |-> "c#", extension |-> "cs"]] >>

\* the ides object written by generate_json
GeneratedIdes ==
    << [key |-> "VS Code",
        value |-> [name |-> "vscode", open_command |-> "code %PATH%"]] >>

\* generate_json: the defaults object is derived from the languages object
generate_json ==
    [languages |-> GeneratedLanguages,
     ides |-> GeneratedIdes,
     defaults |-> [k \in Keys(GeneratedLanguages) |->
        LET v == (CHOOSE i \in DOMAIN GeneratedLanguages :
                     GeneratedLanguages[i].key = k)
        IN [output_path |-> <<"projects", GeneratedLanguages[v].value.language>>,
            ide |-> "vscode"]]]

\* config.json is meant to be edited by hand (initialize() allows for entries
\* without "shebang", "gitignore" and "open_command"): a language added to
\* "languages", with an empty shebang
LuaEntry ==
    [key |-> "lua", value |-> [language |-> "lua", extension |-> "lua", shebang |-> ""]]

\* the generated file with the language added and a defaults entry written for it
ConfigWithLua ==
    [generate_json EXCEPT
        !.languages = Append(@, LuaEntry),
        !.defaults = [k \in DOMAIN @ \cup {"lua"} |->
            IF k = "lua" THEN [output_path |-> <<"projects", "lua">>, ide |-> "vscode"]
            ELSE @[k]]]

\* the generated file with only the language added: "defaults" has no entry for it
ConfigWithLuaNoDefaults ==
    [generate_json EXCEPT !.languages = Append(@, LuaEntry)]

InitialConfigs == {generate_json, ConfigWithLua, ConfigWithLuaNoDefaults}

\* the generated file with the two c# entries in the other order
ConfigReordered ==
    [generate_json EXCEPT
        !.languages = <<GeneratedLanguages[1], GeneratedLanguages[3], GeneratedLanguages[2]>>]

\* the generated file with an entry added whose key differs from "python" in
\* case only: json.load keeps both, Language lower-cases the name of both
ConfigWithTwoPythons ==
    [generate_json EXCEPT
        !.languages = Append(@, [key |-> "Python",
                                 value |-> [language |-> "python", extension |-> "pyw"]])]

EditedConfigs == {ConfigReordered, ConfigWithTwoPythons}

\* the file with lua added, its default output directory set to one that does
\* not exist
ConfigWithLuaElsewhere ==
    [ConfigWithLua EXCEPT !.defaults["lua"].output_path = <<"nowhere">>]

(***************************************************************************)
(* The registries built by initialize() at the start of every run.  A      *)
(* class-level dict is the sequence of its values in insertion order.      *)
(***************************************************************************)
\* Language.__init__: the fields are lower-cased and a shebang that is not None
\* and does not start with "#!" gets the "#!" prefix
Language(name, language, extension, shebang, gitignore) ==
    [name |-> Lower(name),
     language |-> Lower(language),
     extension |-> Lower(extension),
     shebang |-> IF shebang # None /\ ~StartsWith(shebang, "#!")
                 THEN "#!" \o shebang ELSE shebang,
     gitignore |-> gitignore]

\* Language.languages[self.name] = self
RegisterLanguage(reg, L) ==
    IF \E i \in DOMAIN reg : reg[i].name = L.name
    THEN [i \in DOMAIN reg |-> IF reg[i].name = L.name THEN L ELSE reg[i]]
    ELSE Append(reg, L)

RECURSIVE LoadLanguages(_, _)
\* initialize(): the loop over data["languages"]
LoadLanguages(items, reg) ==
    IF items = <<>> THEN reg
    ELSE LET v == Head(items).value
         IN LoadLanguages(Tail(items),
                RegisterLanguage(reg,
                    Language(Head(items).key, v.language, v.extension,
                             Get(v, "shebang", None), Get(v, "gitignore", <<>>))))

\* the attributes of a Python dict: the members of the JSON object are its
\* items, not its attributes
DictAttributes == {"get", "items", "keys", "values", "pop", "update", "copy"}

\* getattr(value, name, default) on a dict loaded from JSON
GetAttr(value, name, default) ==
    IF name \in DictAttributes THEN name ELSE default

\* IDE.__init__ and IDE.ides[display_name] = self
IDE(display_name, name, open_command) ==
    [display_name |-> display_name, name |-> Lower(name), open_command |-> open_command]

\* initialize(): the loop over data["ides"]
LoadIdes(items) ==
    [i \in DOMAIN items |->
        IDE(items[i].key, items[i].value.name,
            GetAttr(items[i].value, "open_command", None))]

\* the registries of the configurations a run can start with, computed once
LanguagesTable ==
    [items \in {c.languages : c \in InitialConfigs \cup EditedConfigs} |->
        LoadLanguages(items, <<>>)]

IdesTable == [items \in {c.ides : c \in InitialConfigs} |-> LoadIdes(items)]

\* Language.languages and IDE.ides of a run that starts with configuration c
Languages(c) ==
    IF c.languages \in DOMAIN LanguagesTable THEN LanguagesTable[c.languages]
    ELSE LoadLanguages(c.languages, <<>>)

Ides(c) == IF c.ides \in DOMAIN IdesTable THEN IdesTable[c.ides] ELSE LoadIdes(c.ides)

LanguageNames(c) == {Languages(c)[i].name : i \in DOMAIN Languages(c)}

\* Language.languages[name]
LanguageByName(c, name) ==
    Languages(c)[CHOOSE i \in DOMAIN Languages(c) : Languages(c)[i].name = name]

(***************************************************************************)
(* get_language: the first registered profile whose display name matches,  *)
(* or cs_project when the project variant of c# is asked for.              *)
(***************************************************************************)
Matches(c, language_name) ==
    {i \in DOMAIN Languages(c) : Lower(Languages(c)[i].language) = Lower(language_name)}

\* the loop "for key, value in Language.languages.items()" stops at the first match
FirstMatch(c, language_name) ==
    CHOOSE i \in Matches(c, language_name) : \A j \in Matches(c, language_name) : i <= j

\* what follows the loop: the project toggle
ProjectVariant(c, value, project) ==
    IF project /\ Lower(value.language) # "c#"
    THEN [outcome |-> "exit: no project toggle"]
    ELSE IF Lower(value.language) = "c#" /\ project
    THEN IF "cs_project" \in LanguageNames(c)
         THEN [outcome |-> "ok", value |-> LanguageByName(c, "cs_project")]
         ELSE [outcome |-> "KeyError"]
    ELSE [outcome |-> "ok", value |-> value]

get_language(c, language_name, project) ==
    IF Matches(c, language_name) = {}
    THEN [outcome |-> "exit: language not supported"]
    ELSE ProjectVariant(c, Languages(c)[FirstMatch(c, language_name)], project)

(***************************************************************************)
(* The defaults store: the "defaults" object of config.json.               *)
(***************************************************************************)
\* get_defaults (codeforge.py and modules/functions.py agree once config.json
\* exists): the entry is read, never created
get_defaults(c, language_input) ==
    LET language == Lower(language_input)
    IN IF language \notin LanguageNames(c)
       THEN [outcome |-> "exit: config for language not found"]
       ELSE IF language \notin DOMAIN c.defaults
       THEN [outcome |-> "KeyError"]
       ELSE [outcome |-> "ok", value |-> c.defaults[language]]

\* language_data[field] = value on a dict
SetItem(d, field, value) ==
    [k \in DOMAIN d \cup {field} |-> IF k = field THEN value ELSE d[k]]

\* an update that replaces the entry by the one field
update_defaults_replacing(c, language, field, value) ==
    IF language \notin DOMAIN c.defaults
    THEN [outcome |-> "KeyError", config |-> c]
    ELSE [outcome |-> "ok", config |-> [c EXCEPT !.defaults[language] = (field :> value)]]

\* update_defaults: read config.json, set one field of one entry, write it back
update_defaults(c, language, field, value) ==
    IF language \notin DOMAIN c.defaults
    THEN [outcome |-> "KeyError", config |-> c]
    ELSE [outcome |-> "ok",
          config |-> [c EXCEPT !.defaults[language] = SetItem(@, field, value)]]

\* get_ides: the names of the registered IDEs
get_ides(c) == {Ides(c)[i].name : i \in DOMAIN Ides(c)}

(***************************************************************************)
(* The template library: templates/<language>/<name>.txt, two header lines *)
(* and the body.                                                           *)
(***************************************************************************)
\* get_file_path
get_file_path(filename, language) == <<"templates", language, filename \o ".txt">>

\* the two lines create_template and create_defaults write first
Header(desc) == <<"# Description:\n", "# " \o desc \o "\n">>

HelloWorldPython ==
    Header("A simple 'hello world' file.") \o <<"print(\"Hello, World!\")\n">>

IfNameMainPython ==
    Header("A file with the 'if name main' boilerplate code.") \o
    <<"def main():\n", "    print(\"Hello, World!\")\n", "\n", "\n",
      "if __name__ == '__main__':\n", "    main()\n">>

HelloWorldCs ==
    Header("A simple 'hello world' file.") \o
    <<"namespace project;\n", "\n", "class Program\n", "{\n",
      "    static void Main(string[] args)\n", "    {\n",
      "        Console.WriteLine(\"Hello, World!\");                 \n",
      "    }\n", "}\n">>

\* a blank template that is not blank
BlankWithBody == Header("A blank file") \o <<"\n">>

Blank == Header("A blank file")

\* the built-in templates of a language, in the order create_defaults writes them
Builtins(language) ==
    (IF language = "python"
     THEN << [name |-> "hello world", lines |-> HelloWorldPython],
             [name |-> "if name main", lines |-> IfNameMainPython] >>
     ELSE IF language = "c#"
     THEN << [name |-> "hello world", lines |-> HelloWorldCs] >>
     ELSE << >>)
    \o << [name |-> "blank", lines |-> Blank] >>

\* a seeding block without its existence test
SeedOneOverwriting(st, path, lines) ==
    [fs |-> WriteFile(st.fs, path, lines), created |-> st.created + 1]

\* one "if not path.exists(file_path): created += 1; write" block
SeedOne(st, path, lines) ==
    IF Exists(st.fs, path) THEN st
    ELSE [fs |-> WriteFile(st.fs, path, lines), created |-> st.created + 1]

RECURSIVE SeedAll(_, _, _)
SeedAll(st, language, todo) ==
    IF todo = <<>> THEN st
    ELSE SeedAll(SeedOne(st, get_file_path(Head(todo).name, language), Head(todo).lines),
                 language, Tail(todo))

\* create_defaults: the directory is made if missing, then every built-in
\* template that is not there is written
create_defaults(f, language) ==
    SeedAll([fs |-> Makedirs(f, <<"templates", language>>), created |-> 0],
            language, Builtins(language))

EndsWith(s, suffix) ==
    /\ Len(s) >= Len(suffix)
    /\ SubSeq(s, Len(s) - Len(suffix) + 1, Len(s)) = suffix

\* glob(path.join(folder_path, "*.txt")): the entries of the folder that end in
\* .txt and are not hidden
Glob(f, folder) ==
    {Join(folder, n) : n \in {m \in Listdir(f, folder) :
                                EndsWith(m, ".txt") /\ ~StartsWith(m, ".")}}

\* template[len(folder_path) + 1 : -4].lower()
TemplateKey(p) == Lower(SubSeq(p[Len(p)], 1, Len(p[Len(p)]) - 4))

\* get_templates: the folder is made and seeded only when it does not exist; the
\* result maps each lower-cased file name to a path (when two files differ in
\* case only, to whichever glob yields last)
\* lines 460-462: a folder that does not exist is made and seeded
EnsureFolder(f, language) ==
    IF ~Exists(f, <<"templates", language>>)
    THEN create_defaults(Makedirs(f, <<"templates", language>>), language).fs
    ELSE f

\* lines 464-478: the keys of the *.txt files of the folder
ListTemplates(g, language) ==
    [outcome |-> "ok", fs |-> g,
     templates |-> {TemplateKey(p) : p \in Glob(g, <<"templates", language>>)}]

\* get_templates once the language is looked up
TemplatesOf(f, found) ==
    IF found.outcome # "ok"
    THEN [outcome |-> found.outcome, fs |-> f, templates |-> {}]
    ELSE ListTemplates(EnsureFolder(f, found.value.language), found.value.language)

get_templates(f, c, language_input) ==
    TemplatesOf(f, get_language(c, language_input, FALSE))

\* the paths get_templates may hold for a key
TemplatePaths(f, language, key) ==
    {p \in Glob(f, <<"templates", language>>) : TemplateKey(p) = key}

\* a Python value with its type, where the code's behaviour depends on it
Str(s) == [type |-> "str", value |-> s]

Object(L) == [type |-> "Language", value |-> L]

\* create_template: path.join("templates", language) raises TypeError unless
\* language is a str; the file is opened with "w+" whether or not it exists
create_template(f, filename, language, desc) ==
    IF language.type # "str"
    THEN [outcome |-> "TypeError", fs |-> f]
    ELSE LET g == IF ~Exists(f, <<"templates", language.value>>)
                  THEN create_defaults(f, language.value).fs
                  ELSE f
         IN [outcome |-> "ok",
             fs |-> WriteFile(g, get_file_path(filename, language.value), Header(desc))]

(***************************************************************************)
(* create_project.  A frame is the state of one call: the file system, the *)
(* outcome ("running" until the call ends) and the events so far (prompts, *)
(* messages printed and external commands, in order).                      *)
(***************************************************************************)
RECURSIVE Replace(_, _, _)
\* str.replace(old, new), old not empty
Replace(s, old, new) ==
    IF Len(s) < Len(old) THEN s
    ELSE IF SubSeq(s, 1, Len(old)) = old
    THEN new \o Replace(SubSeq(s, Len(old) + 1, Len(s)), old, new)
    ELSE SubSeq(s, 1, 1) \o Replace(SubSeq(s, 2, Len(s)), old, new)

\* Python's truth value of an optional string
Truthy(s) == s # None /\ s # ""

\* the platforms platform.system() may name
Platforms == {"Linux", "Windows", "Darwin"}

\* what is installed under the name dotnet: nothing, an SDK whose console project
\* has no <Nullable> element, or one whose project enables it
DotnetKinds == {"none", "net5", "net8"}

CsprojLines(kind) ==
    <<"<Project Sdk=\"Microsoft.NET.Sdk\">\n", "  <PropertyGroup>\n",
      "    <OutputType>Exe</OutputType>\n">>
    \o (IF kind = "net8" THEN <<"    <Nullable>enable</Nullable>\n">> ELSE <<>>)
    \o <<"  </PropertyGroup>\n", "</Project>\n">>

\* os_system('dotnet new console -n <project_name> -o "<project_path>"'): with an
\* SDK installed the project file, Program.cs and obj/ appear; without one the
\* command fails and its status is ignored
DotnetNew(f, kind, project_name, project_path) ==
    IF kind = "none" THEN f
    ELSE WriteFile(
           WriteFile(Makedirs(f, Join(project_path, "obj")),
                     Join(project_path, "Program.cs"),
                     <<"Console.WriteLine(\"Hello, World!\");\n">>),
           Join(project_path, project_name \o ".csproj"), CsprojLines(kind))

Running(st) == st.outcome = "running"

Raise(st, exception) == [st EXCEPT !.outcome = exception]

Event(st, e) == [st EXCEPT !.events = Append(@, e)]

\* a prompt that is shown whether or not the folder exists
PrepareFolderAlwaysAsking(st, project_path, answer) ==
    IF Lower(answer) = "n"
    THEN [Event(Event(st, "input: overwrite"), "print: Exiting program")
            EXCEPT !.outcome = "UserAborted"]
    ELSE [Event(Event(Event(st, "input: overwrite"), "rmtree"), "makedirs")
            EXCEPT !.fs = Makedirs(Rmtree(st.fs, project_path), project_path)]

\* an accepted overwrite that keeps what the folder held
PrepareFolderKeeping(st, project_path, answer) ==
    IF Exists(st.fs, project_path)
    THEN IF Lower(answer) = "n"
         THEN [Event(Event(st, "input: overwrite"), "print: Exiting program")
                 EXCEPT !.outcome = "UserAborted"]
         ELSE [Event(Event(Event(st, "input: overwrite"), "rmtree"), "makedirs")
                 EXCEPT !.fs = Makedirs(st.fs, project_path)]
    ELSE [Event(st, "makedirs") EXCEPT !.fs = Makedirs(st.fs, project_path)]

\* lines 34-40: the overwrite prompt, rmtree and makedirs
PrepareFolder(st, project_path, answer) ==
    IF Exists(st.fs, project_path)
    THEN IF Lower(answer) = "n"
         THEN [Event(Event(st, "input: overwrite"), "print: Exiting program")
                 EXCEPT !.outcome = "UserAborted"]
         ELSE [Event(Event(Event(st, "input: overwrite"), "rmtree"), "makedirs")
                 EXCEPT !.fs = Makedirs(Rmtree(st.fs, project_path), project_path)]
    ELSE [Event(st, "makedirs") EXCEPT !.fs = Makedirs(st.fs, project_path)]

\* lines 41-43: the external generator and the removal of its Program.cs
RunGenerator(st, language, project_name, project_path, dotnet) ==
    IF ~Running(st) \/ language.extension # "cs" THEN st
    ELSE LET g == DotnetNew(st.fs, dotnet, project_name, project_path)
             ran == [Event(st, "os_system: dotnet new console") EXCEPT !.fs = g]
         IN IF ~Exists(g, Join(project_path, "Program.cs"))
            THEN Raise(ran, "FileNotFoundError")
            ELSE [ran EXCEPT !.fs = Remove(g, Join(project_path, "Program.cs"))]

\* the name of the primary file
PrimaryFile(language, project_name, project_path) ==
    Join(project_path, project_name \o "." \o language.extension)

\* a header of which only the first line is dropped
PrimaryLinesKeepingDescription(language, template_lines) ==
    (IF Truthy(language.shebang) THEN <<language.shebang \o "\n">> ELSE <<>>)
    \o SubSeq(template_lines, 2, Len(template_lines))

\* lines 49-52: the first two lines are dropped and the shebang, when there is
\* one, is put in front with a newline
PrimaryLines(language, template_lines) ==
    (IF Truthy(language.shebang) THEN <<language.shebang \o "\n">> ELSE <<>>)
    \o SubSeq(template_lines, 3, Len(template_lines))

\* lines 45-54: the template is read by its lower-cased name and the primary
\* file written
WriteTemplate(st, language, template, project_name, project_path) ==
    IF ~Running(st) THEN st
    ELSE LET template_path == <<"templates", language.language, template \o ".txt">>
         IN IF ~IsFile(st.fs, template_path)
            THEN Raise(st, "FileNotFoundError")
            ELSE [Event(st, "write primary") EXCEPT
                    !.fs = WriteFile(st.fs,
                              PrimaryFile(language, project_name, project_path),
                              PrimaryLines(language, st.fs[template_path].lines))]

\* lines 56-61: unless nullable was asked for, a project file has its marker
\* switched off
DisableNullable(st, language, nullable, project_name, project_path) ==
    IF ~Running(st) \/ nullable \/ language.extension # "cs" THEN st
    ELSE LET csproj == Join(project_path, project_name \o ".csproj")
         IN IF ~IsFile(st.fs, csproj)
            THEN Raise(st, "FileNotFoundError")
            ELSE [Event(st, "rewrite csproj") EXCEPT
                    !.fs = WriteFile(st.fs, csproj,
                              [i \in DOMAIN st.fs[csproj].lines |->
                                  Replace(st.fs[csproj].lines[i],
                                          "<Nullable>enable</Nullable>",
                                          "<Nullable>disable</Nullable>")])]

\* line 63
PrintSuccess(st) ==
    IF ~Running(st) THEN st ELSE Event(st, "print: Successfully created project")

\* lines 65-69: chmod +x on Linux, for every language but c#
SetPermissions(st, language, project_name, project_path, os) ==
    IF ~Running(st) \/ os # "Linux" \/ language.language = "c#" THEN st
    ELSE [Event(st, "os_system: chmod +x") EXCEPT
            !.fs = Chmod(st.fs, PrimaryFile(language, project_name, project_path))]

\* lines 71-81: git init and .gitignore; next_command is bound on Windows and
\* Linux only, and the command line reads it on every platform
InitRepository(st, language, create_repo, project_path, os) ==
    IF ~Running(st) \/ ~create_repo THEN st
    ELSE IF os \notin {"Windows", "Linux"}
    THEN Raise(Event(st, "print: Error: Unsupported operating system"),
               "UnboundLocalError")
    ELSE [Event(Event(st, "os_system: git init"), "write .gitignore") EXCEPT
            !.fs = WriteFile(Makedirs(st.fs, Join(project_path, ".git")),
                             Join(project_path, ".gitignore"), language.gitignore)]

\* path.abspath(project_path) as a string, the working directory being /cwd
RECURSIVE AbsPath(_)
AbsPath(p) == IF p = <<>> THEN "/cwd" ELSE AbsPath(Parent(p)) \o "/" \o p[Len(p)]

\* IDE.ides[key]: the registry is keyed by display name
IdesWithKey(c, key) == {i \in DOMAIN Ides(c) : Ides(c)[i].display_name = key}

\* lines 83-94: the default editor is looked up in IDE.ides and its command run
OpenProject(st, c, language, open_project, project_path) ==
    IF ~Running(st) \/ ~open_project THEN st
    ELSE LET d == get_defaults(c, language.name)
         IN IF d.outcome # "ok" THEN Raise(st, d.outcome)
            ELSE IF IdesWithKey(c, d.value.ide) = {} THEN Raise(st, "KeyError")
            ELSE LET ide == Ides(c)[CHOOSE i \in IdesWithKey(c, d.value.ide) : TRUE]
                 IN IF ide.open_command = None
                    THEN [Event(st, "print: error: IDE does not have an open directory command")
                            EXCEPT !.outcome = "EditorOpenCommandMissing"]
                    ELSE Event(st, "os_system: " \o
                            Replace(ide.open_command, "%PATH%",
                                    "\"" \o AbsPath(project_path) \o "\""))

\* what the caller of create_project gets: every return statement of the
\* function is a bare return (lines 37, 90 and 96), an exception propagates
ReturnValue(outcome) ==
    IF outcome \in {"ok", "UserAborted", "EditorOpenCommandMissing"}
    THEN [kind |-> "return", value |-> None]
    ELSE [kind |-> "raise", value |-> outcome]

\* create_project, lines 32-96
create_project(f, c, project_name, language, template, nullable, create_repo, open_project, output, answer, os, dotnet) ==
    LET project_path == Join(output, project_name)
        s0 == [fs |-> f, outcome |-> "running", events |-> <<>>]
        s1 == PrepareFolder(s0, project_path, answer)
        s2 == RunGenerator(s1, language, project_name, project_path, dotnet)
        s3 == WriteTemplate(s2, language, template, project_name, project_path)
        s4 == DisableNullable(s3, language, nullable, project_name, project_path)
        s5 == PrintSuccess(s4)
        s6 == SetPermissions(s5, language, project_name, project_path, os)
        s7 == InitRepository(s6, language, create_repo, project_path, os)
        s8 == OpenProject(s7, c, language, open_project, project_path)
    IN [s8 EXCEPT !.outcome = IF @ = "running" THEN "ok" ELSE @]

(***************************************************************************)
(* handle_args: one operator per command.  Each returns the file system    *)
(* and configuration it leaves, its outcome and its events.                *)
(***************************************************************************)
\* a run that ends in the handler itself; info is what the command reports
Stop(outcome, f, c) ==
    [outcome |-> outcome, fs |-> f, config |-> c, events |-> <<>>, called |-> FALSE,
     info |-> <<>>]

\* lines 192-203: the output directory of a request
OutputPath(g, a, language, defaults) ==
    IF a.output # <<>> THEN a.output[1]
    ELSE IF ~Exists(g, defaults.output_path)
    THEN <<"projects", language.language>>
    ELSE defaults.output_path

\* lines 198-201: the stored default is rewritten when its directory is missing
StoreOutputPath(g, c, a, language, defaults) ==
    IF a.output = <<>> /\ ~Exists(g, defaults.output_path)
    THEN update_defaults(c, language.name, "output_path", <<"projects", language.language>>)
    ELSE [outcome |-> "ok", config |-> c]

\* what an answer of the environment is when the run never asks for it
NoAnswer == "-"

\* the environment of a run: the answer to the overwrite prompt, the platform
\* and the installed dotnet
Env(answer, os, dotnet) == [answer |-> answer, os |-> os, dotnet |-> dotnet]

\* what the handler returns after create_project was called
Called(r, c) ==
    [outcome |-> r.outcome, fs |-> r.fs, config |-> c, events |-> r.events,
     called |-> TRUE, info |-> <<>>]

\* line 205: the call, once the output path is settled
CallCreateProject(g, a, language, defaults, u, env) ==
    IF u.outcome # "ok" THEN Stop(u.outcome, g, u.config)
    ELSE Called(create_project(g, u.config, Lower(a.name), language,
                               Lower(a.template), a.nullable, a.repository,
                               a.code, OutputPath(g, a, language, defaults),
                               env.answer, env.os, env.dotnet),
                u.config)

\* lines 178-203: the checks of the template, the nullable flag and the output
\* directory, made after get_templates has run
CheckRequest(c, a, language, defaults, t, env) ==
    IF t.outcome # "ok" THEN Stop(t.outcome, t.fs, c)
    ELSE IF a.template # "" /\ Lower(a.template) \notin t.templates
    THEN Stop("error: template not found", t.fs, c)
    ELSE IF a.nullable /\ language.language # "c#"
    THEN Stop("error: nullable needs c#", t.fs, c)
    ELSE IF a.nullable /\ ~a.project
    THEN Stop("error: nullable needs project", t.fs, c)
    ELSE IF a.output # <<>> /\ ~Exists(t.fs, a.output[1])
    THEN Stop("error: cannot find directory", t.fs, c)
    ELSE CallCreateProject(t.fs, a, language, defaults,
                           StoreOutputPath(t.fs, c, a, language, defaults), env)

\* lines 174-177: the defaults are read, then the templates when one is named
ReadTemplates(f, c, a, language, d, env) ==
    IF d.outcome # "ok" THEN Stop(d.outcome, f, c)
    ELSE CheckRequest(c, a, language, d.value,
                      IF a.template # ""
                      THEN get_templates(f, c, language.language)
                      ELSE [outcome |-> "ok", fs |-> f, templates |-> {}],
                      env)

\* lines 170-173: the language is looked up first
ReadDefaults(f, c, a, found, env) ==
    IF found.outcome # "ok" THEN Stop(found.outcome, f, c)
    ELSE ReadTemplates(f, c, a, found.value, get_defaults(c, found.value.name), env)

\* the create command, lines 167-205
handle_create(f, c, a, env) ==
    ReadDefaults(f, c, a, get_language(c, a.language, a.project), env)

\* what the handler returns after create_template was called
TemplateWritten(r, c) == [Stop(r.outcome, r.fs, c) EXCEPT !.called = TRUE]

\* lines 134-140: the existence check, then the call with the Language object
CheckTemplateName(f, c, a, found) ==
    IF found.outcome # "ok" THEN Stop(found.outcome, f, c)
    ELSE IF Exists(f, <<"templates", found.value.language, Lower(a.name)>>)
    THEN Stop("error: template already exists", f, c)
    ELSE TemplateWritten(create_template(f, a.name, Object(found.value), a.description), c)

\* the template command, lines 130-140
handle_template(f, c, a) ==
    CheckTemplateName(f, c, a, get_language(c, a.language, FALSE))

\* the attributes of a Language object
HasAttr(obj, attr) == attr \in DOMAIN obj

\* what the handler returns after update_defaults was called
DefaultStored(f, u) == [Stop(u.outcome, f, u.config) EXCEPT !.called = TRUE]

\* lines 148-164: the checks of the field and the value, then the update
CheckField(f, c, a, language, d, field) ==
    IF d.outcome # "ok" THEN Stop(d.outcome, f, c)
    ELSE IF field \notin DOMAIN d.value
    THEN Stop("error: field does not exist", f, c)
    ELSE IF field = "output" /\ ~Exists(f, a.value)
    THEN Stop("error: directory does not exist", f, c)
    ELSE IF field = "ide" /\ a.value \notin get_ides(c)
    THEN Stop("error: IDE is not supported", f, c)
    ELSE DefaultStored(f, update_defaults(c, language.name, field, a.value))

\* lines 145-146: language.lname is read to get the defaults
ReadLname(f, c, a, found) ==
    IF found.outcome # "ok" THEN Stop(found.outcome, f, c)
    ELSE IF ~HasAttr(found.value, "lname") THEN Stop("AttributeError", f, c)
    ELSE CheckField(f, c, a, found.value, get_defaults(c, found.value["lname"]),
                    Lower(a.field))

\* the default command, lines 143-164
handle_default(f, c, a) ==
    ReadLname(f, c, a, get_language(c, a.language, FALSE))

\* what the flags report
Reported(outcome, f, c, info) == [Stop(outcome, f, c) EXCEPT !.info = info]

SeedReport(r, c) == Reported("ok", r.fs, c, r.created)

\* --generate_templates, lines 121-123
handle_generate_templates(f, c, language) ==
    SeedReport(create_defaults(f, Lower(language)), c)

TemplatesReport(r, c) == Reported(r.outcome, r.fs, c, r.templates)

\* --templates, lines 113-115
handle_templates(f, c, language) ==
    TemplatesReport(get_templates(f, c, language), c)

DefaultsReport(r, f, c) ==
    IF r.outcome = "ok" THEN Reported("ok", f, c, r.value) ELSE Stop(r.outcome, f, c)

\* --defaults, lines 117-119
handle_defaults(f, c, language) ==
    DefaultsReport(get_defaults(c, language), f, c)

(***************************************************************************)
(* The command lines and the answers of the environment.                   *)
(***************************************************************************)
MaxRuns == 1

ProjectNames == {"demo"}

LanguageArgs == {"python", "C#", "lua"}

TemplateArgs == {"blank", "hello world", "nosuch"}

\* --output: not given, the working directory, a directory that does not exist
OutputArgs == {<<>>, << <<>> >>, << <<"nowhere">> >>}

\* the create command lines: every combination of the arguments that decide
\* what is generated and where, and every combination of the flags for the steps
\* after generation
CreateRequests ==
    [name : ProjectNames, language : LanguageArgs, template : TemplateArgs,
     project : BOOLEAN, nullable : BOOLEAN, repository : {FALSE}, code : {FALSE},
     output : OutputArgs]
    \cup
    [name : ProjectNames, language : LanguageArgs, template : {"blank"},
     project : BOOLEAN, nullable : {FALSE}, repository : BOOLEAN, code : BOOLEAN,
     output : {<<>>}]

TemplateRequests ==
    [name : {"mine", "Blank"}, language : LanguageArgs,
     description : {"A custom template"}]

DefaultRequests ==
    [language : LanguageArgs, field : {"output_path"}, value : {<<>>, <<"nowhere">>}]
    \cup [language : LanguageArgs, field : {"output"}, value : {<<"nowhere">>}]
    \cup [language : LanguageArgs, field : {"ide"}, value : {"vscode", "emacs"}]

\* the line a user adds to the body of a template
UserLine == "pass\n"

\* no command is running
NoRun ==
    [cmd |-> "none", args |-> <<>>, outcome |-> "none", events |-> <<>>,
     called |-> FALSE, info |-> <<>>, answer |-> NoAnswer, os |-> NoAnswer,
     dotnet |-> NoAnswer, pre_fs |-> <<>>, pre_config |-> generate_json]

\* what the run of a command leaves in last
Ran(cmd, a, r, env) ==
    [cmd |-> cmd, args |-> a, outcome |-> r.outcome, events |-> r.events,
     called |-> r.called, info |-> r.info,
     answer |-> env.answer, os |-> env.os, dotnet |-> env.dotnet,
     pre_fs |-> fs, pre_config |-> config]

Finish(cmd, a, r, env) ==
    /\ fs' = r.fs
    /\ config' = r.config
    /\ runs' = runs + 1
    /\ last' = Ran(cmd, a, r, env)

Occurred(events, e) == \E i \in DOMAIN events : events[i] = e

\* a run that consults nothing of its environment
NoEnv == Env(NoAnswer, NoAnswer, NoAnswer)

\* the environments that make a difference to a run, given the events of the
\* same run in one environment: the prompt is answered only if it is shown,
\* dotnet matters only if it is run, the platform only once the project is made
Environments(events) ==
    {Env(answer, os, dotnet) :
        answer \in (IF Occurred(events, "input: overwrite")
                    THEN {"y", "n"} ELSE {NoAnswer}),
        os \in (IF Occurred(events, "print: Successfully created project")
                THEN Platforms ELSE {NoAnswer}),
        dotnet \in (IF Occurred(events, "os_system: dotnet new console")
                    THEN DotnetKinds ELSE {NoAnswer})}

\* the environment a run has consulted: the platform is not read when the run
\* ends before the project is made
Consulted(env, events) ==
    IF Occurred(events, "print: Successfully created project") THEN env
    ELSE [env EXCEPT !.os = NoAnswer]

FinishCreate(a, r, env) == Finish("create", a, r, Consulted(env, r.events))

\* codeforge.py create ...: the answer to the prompt, the platform and the
\* installed dotnet are chosen where the run consults them
Create ==
    /\ runs < MaxRuns
    /\ last = NoRun
    /\ \E a \in CreateRequests :
        \E env \in Environments(
                      handle_create(fs, config, a, Env("y", "Linux", "net8")).events) :
            FinishCreate(a, handle_create(fs, config, a, env), env)

\* codeforge.py template <name> <language> [description]
Template ==
    /\ runs < MaxRuns
    /\ last = NoRun
    /\ \E a \in TemplateRequests :
        Finish("template", a, handle_template(fs, config, a), NoEnv)

\* codeforge.py default <language> <field> <value>
Default ==
    /\ runs < MaxRuns
    /\ last = NoRun
    /\ \E a \in DefaultRequests :
        Finish("default", a, handle_default(fs, config, a), NoEnv)

\* codeforge.py --generate_templates <language>
GenerateTemplates ==
    /\ runs < MaxRuns
    /\ last = NoRun
    /\ \E language \in LanguageArgs :
        Finish("generate_templates", [language |-> language],
               handle_generate_templates(fs, config, language),
               NoEnv)

\* codeforge.py --templates <language>
ShowTemplates ==
    /\ runs < MaxRuns
    /\ last = NoRun
    /\ \E language \in LanguageArgs :
        Finish("templates", [language |-> language],
               handle_templates(fs, config, language), NoEnv)

\* codeforge.py --defaults <language id>
ShowDefaults ==
    /\ runs < MaxRuns
    /\ last = NoRun
    /\ \E language \in {"python", "cs_script", "lua"} :
        Finish("defaults", [language |-> language],
               handle_defaults(fs, config, language), NoEnv)

\* codeforge.py --generate_json
GenerateJson ==
    /\ runs < MaxRuns
    /\ last = NoRun
    /\ Finish("generate_json", <<>>, Stop("ok", fs, generate_json),
              NoEnv)

\* the process ends: the disk is what is left of the run
Exit ==
    /\ last # NoRun
    /\ last' = NoRun
    /\ UNCHANGED <<fs, config, runs>>

\* the working directory before anything is run in it
Fresh == (Root :> DirNode)

\* the user writes a body line into a template file, which is how a template
\* gets its content (create_template and the blank template have none)
EditTemplate(f, p, line) ==
    IF IsFile(f, p) THEN WriteFile(f, p, Append(f[p].lines, line)) ELSE f

FirstUse ==
    [kind |-> "create",
     args |-> [name |-> "demo", language |-> "python", template |-> "hello world",
               project |-> FALSE, nullable |-> FALSE, repository |-> TRUE,
               code |-> FALSE, output |-> << <<>> >>]]

SecondUse ==
    [kind |-> "create",
     args |-> [name |-> "demo", language |-> "python", template |-> "blank",
               project |-> FALSE, nullable |-> FALSE, repository |-> FALSE,
               code |-> FALSE, output |-> <<>>]]

UserEdit ==
    [kind |-> "edit", path |-> <<"templates", "python", "blank.txt">>, line |-> UserLine]

UserRemove ==
    [kind |-> "remove", path |-> <<"templates", "python", "hello world.txt">>]

\* the user makes the template directory of a language and leaves it empty
UserMkdir == [kind |-> "mkdir", path |-> <<"templates", "c#">>]

\* a template made as create_template makes it when given the name of the
\* language: the file is named as the name was typed
TemplateMade ==
    [kind |-> "template", name |-> "Hello World", language |-> "lua",
     description |-> "A custom template"]

\* a library with an empty directory and a template named in capitals, with
\* the configuration above
CustomLibrary == <<ConfigWithLuaElsewhere, <<UserMkdir, TemplateMade>> >>

\* The directory the tool is started in may have been used before.  An earlier
\* use is a create command, run by the handler above, or an edit of a template
\* by the user.  The cases: no earlier use; a project with a repository made in
\* the working directory itself; a project made in the default output
\* directory, after which the user gave the blank template a body and deleted a
\* built-in template.
EarlierUses == {<<>>, <<FirstUse>>, <<SecondUse, UserEdit, UserRemove>>}

RECURSIVE AfterUses(_, _, _)
AfterUse(r, uses) == AfterUses(r.fs, r.config, uses)

\* the directory and configuration the earlier uses leave
AfterUses(f, c, uses) ==
    IF uses = <<>> THEN [fs |-> f, config |-> c]
    ELSE IF Head(uses).kind = "edit"
    THEN AfterUses(EditTemplate(f, Head(uses).path, Head(uses).line), c, Tail(uses))
    ELSE IF Head(uses).kind = "remove"
    THEN AfterUses(Remove(f, Head(uses).path), c, Tail(uses))
    ELSE IF Head(uses).kind = "mkdir"
    THEN AfterUses(Makedirs(f, Head(uses).path), c, Tail(uses))
    ELSE IF Head(uses).kind = "template"
    THEN AfterUses(create_template(f, Head(uses).name, Str(Head(uses).language),
                                   Head(uses).description).fs, c, Tail(uses))
    ELSE AfterUse(handle_create(f, c, Head(uses).args, Env("y", "Linux", "net8")),
                  Tail(uses))

\* a configuration and the earlier uses of the directory; the configurations
\* whose language entries were rearranged by hand start in an unused directory
StartingPoints ==
    (InitialConfigs \X EarlierUses) \cup (EditedConfigs \X {<<>>}) \cup {CustomLibrary}

\* initialize() has written or found config.json
Init ==
    /\ \E start \in StartingPoints :
        \E disk \in {AfterUses(Fresh, start[1], start[2])} :
            /\ fs = disk.fs
            /\ config = disk.config
    /\ runs = 0
    /\ last = NoRun

Next ==
    \/ Create
    \/ Template
    \/ Default
    \/ GenerateTemplates
    \/ ShowTemplates
    \/ ShowDefaults
    \/ GenerateJson
    \/ Exit

Spec == Init /\ [][Next]_vars

(***************************************************************************)
(* Properties.  Each is stated on the run recorded in last: its arguments, *)
(* the disk before it (pre_fs, pre_config) and the disk after it.          *)
(***************************************************************************)
CreateRan == last.cmd = "create"

\* the language profile the last create run resolved
RunLanguage == get_language(last.pre_config, last.args.language, last.args.project).value

\* the output directory the last create run used: the override, or the stored
\* default as the run left it
RunOutput ==
    IF last.args.output # <<>> THEN last.args.output[1]
    ELSE config.defaults[RunLanguage.name].output_path

RunProjectPath == Join(RunOutput, Lower(last.args.name))

RunPrimaryFile ==
    Join(RunProjectPath, Lower(last.args.name) \o "." \o RunLanguage.extension)

RunTemplateFile ==
    <<"templates", RunLanguage.language, Lower(last.args.template) \o ".txt">>

\* the ways a create request is rejected by validation
Rejections ==
    {"exit: language not supported", "exit: no project toggle",
     "error: template not found", "error: nullable needs c#",
     "error: nullable needs project", "error: cannot find directory"}

\* C1: when the project path exists and the overwrite is declined, the create
\* run ends as UserAborted and the working directory (projects, template
\* library) and the defaults store are exactly as they were before the run.
C1_DeclineLeavesDiskUnchanged ==
    (CreateRan /\ last.answer = "n") =>
        /\ last.outcome = "UserAborted"
        /\ fs = last.pre_fs
        /\ config = last.pre_config

\* C2: a create request rejected by validation (unknown language, unsupported
\* project variant, unknown template, unsupported nullable toggle, missing
\* output override) has changed nothing: no directory or file is created or
\* changed and the defaults store is as before.
C2_RejectionLeavesDiskUnchanged ==
    (CreateRan /\ last.outcome \in Rejections) =>
        /\ fs = last.pre_fs
        /\ config = last.pre_config

\* the template requests that name the template of the last run again, up to case
SameTemplateAgain ==
    {b \in TemplateRequests :
        /\ Lower(b.name) = Lower(last.args.name)
        /\ Lower(b.language) = Lower(last.args.language)}

\* C3: after a template create for a registered language, a second template
\* create with a name equal ignoring case fails with TemplateAlreadyExists and
\* leaves the stored templates as they are.
C3_SecondCreateRejected ==
    (last.cmd = "template" /\ Matches(last.pre_config, last.args.language) # {}) =>
        \A b \in SameTemplateAgain :
            /\ handle_template(fs, config, b).outcome = "error: template already exists"
            /\ handle_template(fs, config, b).fs = fs

\* the language directory of the template the last template run named
LastTemplateLanguage ==
    Languages(last.pre_config)[FirstMatch(last.pre_config, last.args.language)].language

\* C4: after a template create for a registered language, getting the template
\* by a name equal ignoring case finds a record with the description supplied
\* and an empty body.
C4_CreateThenGet ==
    (last.cmd = "template" /\ Matches(last.pre_config, last.args.language) # {}) =>
        \E p \in TemplatePaths(fs, LastTemplateLanguage, Lower(last.args.name)) :
            /\ IsFile(fs, p)
            /\ fs[p].lines = Header(last.args.description)

\* the languages seeding is tried for: two with built-in templates of their
\* own, one registered without any, one that is not registered
SeedLanguages == {"python", "c#", "lua", "rust"}

\* library f seeded once and then again: the second seeding creates nothing
\* and changes nothing, and the first keeps every file f had
SeedingKeeps(f, once, twice) ==
    /\ twice.fs = once.fs
    /\ twice.created = 0
    /\ \A p \in DOMAIN f : once.fs[p] = f[p]

SeededAgain(f, language, once) ==
    SeedingKeeps(f, once, create_defaults(once.fs, language))

\* C5: seeding the built-in templates is idempotent and non-destructive: from
\* the library of every reachable state, a second seeding creates nothing and
\* changes nothing, and a seeding leaves every file that existed before it with
\* the content it had; so does the --generate_templates run.
C5_SeedingIdempotent ==
    /\ \A language \in SeedLanguages :
          SeededAgain(fs, language, create_defaults(fs, language))
    /\ last.cmd = "generate_templates" =>
        /\ \A p \in DOMAIN last.pre_fs : p \in DOMAIN fs /\ fs[p] = last.pre_fs[p]
        /\ last.info = Cardinality({p \in DOMAIN fs \ DOMAIN last.pre_fs : IsFile(fs, p)})

\* a seeding run that met a template edited by the user and a built-in one
\* missing: it wrote the missing one and left the edited one alone
C5_Witness ==
    /\ last.cmd = "generate_templates"
    /\ last.args.language = "python"
    /\ last.info = 1
    /\ ~Exists(last.pre_fs, <<"templates", "python", "hello world.txt">>)
    /\ fs[<<"templates", "python", "hello world.txt">>].lines = HelloWorldPython
    /\ fs[<<"templates", "python", "blank.txt">>].lines = Append(Blank, UserLine)

\* C6: for a registered language, the default command given output_path and a
\* path that does not exist fails with InvalidOutputPath and leaves the
\* defaults store unchanged.
C6_MissingOutputPathRejected ==
    (/\ last.cmd = "default"
     /\ Matches(last.pre_config, last.args.language) # {}
     /\ last.args.field = "output_path"
     /\ ~Exists(last.pre_fs, last.args.value)) =>
        /\ last.outcome = "error: directory does not exist"
        /\ config = last.pre_config

\* C7: reading the defaults of a registered language id never fails; when the
\* store has no entry for the id the read creates one, with output path
\* ./projects/<language id> and an editor id, and reports it.
C7_DefaultsReadNeverFails ==
    (last.cmd = "defaults" /\ last.args.language \in LanguageNames(last.pre_config)) =>
        /\ last.outcome = "ok"
        /\ last.args.language \in DOMAIN config.defaults
        /\ last.info = config.defaults[last.args.language]
        /\ last.args.language \notin DOMAIN last.pre_config.defaults =>
              last.info.output_path = <<"projects", last.args.language>>

\* the entry of config.json the registered profile of an id was loaded from:
\* the last one with that id
ConfigEntry(c, name) ==
    c.languages[CHOOSE i \in DOMAIN c.languages :
                   /\ Lower(c.languages[i].key) = name
                   /\ \A j \in DOMAIN c.languages :
                         Lower(c.languages[j].key) = name => j <= i].value

\* the shebang of a profile: the configured one, with #! in front unless it has it
ProfileShebang(entry) ==
    IF StartsWith(entry.shebang, "#!") THEN entry.shebang ELSE "#!" \o entry.shebang

\* the primary file for a stored template and a profile
PrimaryAsSpecified(file, stored, entry) ==
    IF "shebang" \in DOMAIN entry
    THEN /\ Len(file) = Len(stored) - 1
         /\ file[1] = ProfileShebang(entry) \o "\n"
         /\ \A i \in 1..(Len(stored) - 2) : file[i + 1] = stored[i + 2]
    ELSE /\ Len(file) = Len(stored) - 2
         /\ \A i \in 1..(Len(stored) - 2) : file[i] = stored[i + 2]

DemoRequest ==
    [name |-> "demo", language |-> "python", template |-> "blank",
     project |-> FALSE, nullable |-> FALSE, repository |-> FALSE, code |-> FALSE,
     output |-> <<>>]

DemoRan ==
    /\ CreateRan
    /\ last.args = DemoRequest
    /\ last.pre_fs = Fresh
    /\ last.pre_config = generate_json

DemoPath == <<"projects", "python", "demo">>

\* C9: from a fresh configuration and template library, create demo python
\* -t blank (no repository, no editor) succeeds, and projects/python/demo then
\* holds exactly one file, demo.py, which holds the shebang line and nothing else.
C9_DemoScenario ==
    DemoRan =>
        /\ last.outcome = "ok"
        /\ IsDir(fs, DemoPath)
        /\ {p \in DOMAIN fs : IsPrefix(DemoPath, p) /\ p # DemoPath}
             = {Join(DemoPath, "demo.py")}
        /\ IsFile(fs, Join(DemoPath, "demo.py"))
        /\ fs[Join(DemoPath, "demo.py")].lines = <<"#!/usr/bin/env python3\n">>

\* the scenario has run and left its file
C9_Witness ==
    /\ DemoRan
    /\ last.outcome = "ok"
    /\ IsFile(fs, Join(DemoPath, "demo.py"))

\* the outcomes of create_project other than success and a declined overwrite
FailureOutcomes ==
    {"EditorOpenCommandMissing", "FileNotFoundError", "UnboundLocalError", "KeyError"}

\* C10: what the caller of create_project gets when the overwrite is declined
\* differs from what it gets when the same request is confirmed and carried
\* out, and from what it gets for every failure.
C10_AbortDistinguishable ==
    (CreateRan /\ last.outcome = "UserAborted") =>
        /\ ReturnValue(last.outcome) #
             ReturnValue(handle_create(last.pre_fs, last.pre_config, last.args,
                                       Env("y", "Linux", "net8")).outcome)
        /\ \A failure \in FailureOutcomes :
             ReturnValue(last.outcome) # ReturnValue(failure)

\* the profile an entry of config.json describes
ProfileOf(item) ==
    Language(item.key, item.value.language, item.value.extension,
             Get(item.value, "shebang", None), Get(item.value, "gitignore", <<>>))

\* C11: registering a profile whose id is already registered is refused and
\* leaves the profile registered before under that id as it was: of two
\* entries of config.json with the same id, the registry holds the first.
C11_DuplicateIdKeepsFirst ==
    \A i, j \in DOMAIN config.languages :
        (i < j /\ Lower(config.languages[i].key) = Lower(config.languages[j].key)) =>
            LanguageByName(config, Lower(config.languages[i].key))
                = ProfileOf(config.languages[i])

\* C12: when c# is registered both as a script and as a project profile, in
\* whatever order, get_language returns the project profile when the project
\* variant is asked for and the script profile when it is not.
C12_VariantSelected ==
    ({"cs_script", "cs_project"} \subseteq LanguageNames(config)) =>
        /\ get_language(config, "C#", TRUE) =
             [outcome |-> "ok", value |-> LanguageByName(config, "cs_project")]
        /\ get_language(config, "C#", FALSE) =
             [outcome |-> "ok", value |-> LanguageByName(config, "cs_script")]

\* C13: when the project path does not exist as create_project is called, the
\* overwrite prompt is not shown during the call.  (Seeding the template
\* library, which precedes the call, creates nothing outside templates/.)
C13_NoPromptForNewPath ==
    (CreateRan /\ last.called /\ ~Exists(last.pre_fs, RunProjectPath)) =>
        /\ ~Occurred(last.events, "input: overwrite")
        /\ last.answer = NoAnswer

\* a project made where there was none, without a prompt
C13_Witness ==
    /\ CreateRan
    /\ last.called
    /\ last.outcome = "ok"
    /\ ~Exists(last.pre_fs, RunProjectPath)
    /\ IsDir(fs, RunProjectPath)
    /\ ~Occurred(last.events, "input: overwrite")

\* the same request on the disk as it was, but for the project directory
OnClearedPath ==
    handle_create(Rmtree(last.pre_fs, RunProjectPath), last.pre_config, last.args,
                  Env(NoAnswer, last.os, last.dotnet))

\* C14: when the project path exists and the overwrite is accepted, the
\* directory is removed recursively before anything is created: the run leaves
\* the disk that the same request leaves where the directory did not exist, so
\* the project directory holds only what this call produced.
C14_OverwriteStartsEmpty ==
    (CreateRan /\ last.answer = "y") =>
        /\ Len(last.events) >= 3
        /\ last.events[1] = "input: overwrite"
        /\ last.events[2] = "rmtree"
        /\ last.events[3] = "makedirs"
        /\ fs = OnClearedPath.fs

\* a project with a repository overwritten by one without: .gitignore is gone
C14_Witness ==
    /\ CreateRan
    /\ last.answer = "y"
    /\ last.outcome = "ok"
    /\ Exists(last.pre_fs, Join(RunProjectPath, ".gitignore"))
    /\ ~Exists(fs, Join(RunProjectPath, ".gitignore"))
    /\ IsFile(fs, RunPrimaryFile)

\* the run reached the step that opens the editor
ReachedOpenStep ==
    /\ CreateRan
    /\ last.args.code
    /\ Occurred(last.events, "print: Successfully created project")
    /\ last.outcome # "UnboundLocalError"

\* C15: with the open flag set, the stored default editor id is resolved to a
\* registered editor; when that editor has an open command, the command is run
\* with %PATH% replaced by the quoted absolute project path and the call
\* succeeds.  Every configuration here registers vscode with the open command
\* "code %PATH%", so the editor command is run.
C15_EditorOpened ==
    ReachedOpenStep =>
        /\ last.outcome = "ok"
        /\ Occurred(last.events,
                    "os_system: code \"" \o AbsPath(RunProjectPath) \o "\"")

\* C16: on Linux, after a successful create, the primary file is executable
\* for every profile that does not use the external generator (the c# script
\* profile included); only the c# project profile is left out.
C16_PrimaryFileExecutable ==
    (CreateRan /\ last.outcome = "ok" /\ last.os = "Linux") =>
        (fs[RunPrimaryFile].exec <=> RunLanguage.extension # "cs")

\* C17: after a successful create, .gitignore exists in the project directory
\* exactly when the repository flag was set and the profile's gitignore is not
\* empty, and then holds the profile's gitignore.
C17_IgnoreFileWhenBody ==
    (CreateRan /\ last.outcome = "ok") =>
        /\ Exists(fs, Join(RunProjectPath, ".gitignore"))
             <=> (last.args.repository /\ RunLanguage.gitignore # <<>>)
        /\ Exists(fs, Join(RunProjectPath, ".gitignore")) =>
             fs[Join(RunProjectPath, ".gitignore")].lines = RunLanguage.gitignore

\* C18: the project file is read and rewritten only when the request carries
\* the nullable toggle and the profile supports it; without the toggle the
\* project file is neither required nor modified.
C18_ProjectFileOnlyWithToggle ==
    (CreateRan /\ last.called) =>
        /\ Occurred(last.events, "rewrite csproj") => last.args.nullable
        /\ (~last.args.nullable /\ Occurred(last.events, "os_system: dotnet new console")
            /\ last.dotnet # "none") =>
              fs[Join(RunProjectPath, Lower(last.args.name) \o ".csproj")].lines
                = CsprojLines(last.dotnet)

\* C19: on a platform that is neither Linux nor Windows the call does not
\* abort because of the platform: with the repository flag the repository is
\* still initialised and .gitignore written.
C19_UnsupportedPlatformContinues ==
    (CreateRan /\ last.os = "Darwin" /\ last.args.repository) =>
        /\ last.outcome # "UnboundLocalError"
        /\ Occurred(last.events, "os_system: git init")
        /\ Occurred(last.events, "write .gitignore")

\* C20: success is reported as the last step: when "Successfully created
\* project" is printed, nothing follows it and the call does not fail.
C20_SuccessReportedLast ==
    (CreateRan /\ Occurred(last.events, "print: Successfully created project")) =>
        /\ last.events[Len(last.events)] = "print: Successfully created project"
        /\ last.outcome = "ok"

\* C21: listing the templates of a registered language seeds the built-in
\* templates whenever the language has no template when the listing starts,
\* whether its directory is absent or empty, so the listing is never empty.
C21_ListingNeverEmpty ==
    (last.cmd = "templates" /\ last.outcome = "ok") =>
        /\ last.info # {}
        /\ Glob(last.pre_fs, <<"templates", LastTemplateLanguage>>) = {} =>
             \A i \in DOMAIN Builtins(LastTemplateLanguage) :
                IsFile(fs, get_file_path(Builtins(LastTemplateLanguage)[i].name,
                                         LastTemplateLanguage))

\* the values an update of a field is tried with: paths, editor ids
UpdateValues(field) ==
    IF field = "output_path" THEN {<<"nowhere">>, <<"projects", "demo">>}
    ELSE {"emacs", "vscode"}

\* configuration c after update u of (language, field, value), and the read of
\* the language's defaults that follows: the read gives the value, and nothing
\* else is changed
ReadAsSpecified(c, u, read, language, field, value) ==
    /\ u.outcome = "ok"
    /\ read.outcome = "ok"
    /\ read.value[field] = value
    /\ DOMAIN u.config.defaults[language] = DOMAIN c.defaults[language] \cup {field}
    /\ \A k \in DOMAIN c.defaults[language] \ {field} :
          u.config.defaults[language][k] = c.defaults[language][k]
    /\ DOMAIN u.config.defaults = DOMAIN c.defaults
    /\ \A other \in DOMAIN c.defaults \ {language} :
          u.config.defaults[other] = c.defaults[other]
    /\ u.config.languages = c.languages
    /\ u.config.ides = c.ides

UpdatedAsSpecified(c, u, language, field, value) ==
    ReadAsSpecified(c, u, get_defaults(u.config, language), language, field, value)

\* C22: a successful defaults update is persisted at once and changes nothing
\* else: for every stored language, field and value, a read after the update
\* gives the value, and the other field, the other languages' defaults, the
\* languages and the ides are as before; so it is for the update a create run
\* makes when the stored output directory does not exist.
C22_UpdateChangesOneField ==
    /\ \A language \in DOMAIN config.defaults, field \in {"output_path", "ide"} :
          \A value \in UpdateValues(field) :
            UpdatedAsSpecified(config, update_defaults(config, language, field, value),
                               language, field, value)
    /\ (CreateRan /\ config # last.pre_config) =>
          UpdatedAsSpecified(last.pre_config, [outcome |-> "ok", config |-> config],
                             RunLanguage.name, "output_path",
                             <<"projects", RunLanguage.language>>)

\* a create run that found the stored output directory of lua missing and
\* stored ./projects/lua in its place
C22_Witness ==
    /\ CreateRan
    /\ last.called
    /\ "lua" \in DOMAIN last.pre_config.defaults
    /\ last.pre_config.defaults["lua"].output_path = <<"nowhere">>
    /\ config.defaults["lua"] = [output_path |-> <<"projects", "lua">>, ide |-> "vscode"]
    /\ IsDir(fs, <<"projects", "lua", "demo">>)

\* C23: a create run that passed the template check and has removed or made
\* the project directory finds the template file it reads: the run does not
\* end at the reading step, whatever case the template was created with.
C23_ListedTemplateReadable ==
    (CreateRan /\ last.called /\ Occurred(last.events, "makedirs")) =>
        /\ IsFile(fs, RunTemplateFile)
        /\ last.outcome = "FileNotFoundError" =>
              Occurred(last.events, "os_system: dotnet new console")

====
